---- MODULE Spec2Model ----
(***************************************************************************)
(* A model of the reconciliation engine of bunny-storage-sync: the remote  *)
(* fetch, the local walk with its per-file classification, the concurrent  *)
(* upload and delete executors and the metrics.  Two versions of package   *)
(* syncer are in the repository; the variable impl selects which one runs: *)
(*   "v122"  the parallel-scan syncer (src/unnamed/part_002),              *)
(*   "v120"  the queue-based syncer   (src/syncer/syncer.go).              *)
(*                                                                         *)
(* Strings are sequences of tokens: a token is either the separator "/"    *)
(* or a whole path element or hex digit, so that prefix trimming, joining  *)
(* and case folding are computed as the code computes them.                *)
(***************************************************************************)
EXTENDS Integers, Sequences, FiniteSets, Bags, TLC

VARIABLES
    impl,          \* which version of package syncer runs
    DryRun, SizeOnly, OnlyMissing, Delete, Concurrency,   \* BCDNSyncer fields
    syncPath,      \* Sync's syncPath argument
    local,         \* the local tree: file path (elements) -> content
    remote,        \* the storage zone: file path (elements) -> [content, upper]
    pc,            \* Sync's position
    ret,           \* what Sync returned ("" while running)
    objMap,        \* the remote-state map, string -> BCDNObject
    fetched,       \* history: objMap as the fetch returned it
    dirQueue,      \* v122: the dirQueue channel; v120: the queue slice
    sending,       \* v122: prefixes held by enqueue goroutines not yet delivered
    listing,       \* v122: prefixes whose List call is in flight, one per busy worker
    wg,            \* v122: the fetch WaitGroup counter
    fetchErr,      \* the error of the fetch: <<>> (nil), or <<"list", prefix>>
    waitDone,      \* v122: dirQueue and waitDone are closed
    processed,     \* v120: the processed set
    listCalls,     \* history: bag of prefixes passed to API.List
    walkIdx,       \* index of the next entry filepath.Walk hands to the callback
    metrics,       \* syncMetrics
    operations,    \* the upload operations collected by the walk
    walkLog,       \* history: one record per callback invocation on a file
    units,         \* upload goroutines: index in operations -> position
    deleteOps,     \* the deleteOps slice (a set: map iteration order is free)
    dunits,        \* delete goroutines: path -> position
    sem,           \* number of slots taken in the current executor's sem channel
    readLog,       \* history: bag of <<who, local path>> calls of getFileContent
    uploadCalls,   \* history: bag of [relPath, content, checksum] passed to API.Upload
    deleteCalls,   \* history: bag of paths passed to API.Delete
    failures,      \* history: bag of kinds of per-item failures that occurred
    execErrors,    \* v120: length of the current executor's errors slice
    summary,       \* the summaries printed: <<>> or <<the counters>>
    remote0,       \* history: the zone as it was when the run began
    prev           \* history: the outcome of the previous run of Sync (kind "none": no such run)

cfgVars == <<impl, DryRun, SizeOnly, OnlyMissing, Delete, syncPath, local>>
fetchVars == <<dirQueue, sending, listing, wg, fetchErr, waitDone, processed, listCalls>>
walkVars == <<walkIdx, operations, walkLog>>
execVars == <<units, deleteOps, dunits, sem, execErrors, uploadCalls, deleteCalls>>
vars == <<cfgVars, Concurrency, remote, pc, ret, objMap, fetched, fetchVars, walkVars,
          metrics, execVars, readLog, failures, summary, remote0, prev>>

----------------------------------------------------------------------------
(* Strings *)

Sep == "/"

HasPrefix(s, p) == Len(s) >= Len(p) /\ SubSeq(s, 1, Len(p)) = p

HasSuffix(s, p) == Len(s) >= Len(p) /\ SubSeq(s, Len(s) - Len(p) + 1, Len(s)) = p

TrimPrefix(s, p) == IF HasPrefix(s, p) THEN SubSeq(s, Len(p) + 1, Len(s)) ELSE s

\* strings.Trim(s, "/"): leading and trailing separators removed.
RECURSIVE TrimSlashes(_)
TrimSlashes(s) ==
    IF s = <<>> THEN s
    ELSE IF Head(s) = Sep THEN TrimSlashes(Tail(s))
    ELSE IF s[Len(s)] = Sep THEN TrimSlashes(SubSeq(s, 1, Len(s) - 1))
    ELSE s

\* The elements of a path string (empty elements dropped), and back.
Elems(s) == SelectSeq(s, LAMBDA t : t # Sep)

RECURSIVE Str(_)
Str(e) ==
    IF e = <<>> THEN <<>>
    ELSE IF Len(e) = 1 THEN e
    ELSE <<Head(e), Sep>> \o Str(Tail(e))

\* filepath.Clean on a slash-separated path without "." or ".." elements:
\* repeated separators collapse, a trailing separator goes, "" becomes ".".
Clean(s) ==
    LET rooted == s # <<>> /\ Head(s) = Sep
        body == Str(Elems(s))
    IN  IF rooted THEN <<Sep>> \o body
        ELSE IF body = <<>> THEN <<".">>
        ELSE body

\* filepath.ToSlash: the host separator is already "/".
ToSlash(s) == s

\* Case folding of hex digits.
LowerTok(t) ==
    CASE t = "A" -> "a" [] t = "B" -> "b" [] t = "C" -> "c"
      [] t = "D" -> "d" [] t = "E" -> "e" [] t = "F" -> "f"
      [] OTHER -> t

UpperTok(t) ==
    CASE t = "a" -> "A" [] t = "b" -> "B" [] t = "c" -> "C"
      [] t = "d" -> "D" [] t = "e" -> "E" [] t = "f" -> "F"
      [] OTHER -> t

ToLower(s) == [i \in 1..Len(s) |-> LowerTok(s[i])]

ToUpper(s) == [i \in 1..Len(s) |-> UpperTok(s[i])]

EqualFoldExact(s, t) == s = t

\* strings.EqualFold
EqualFold(s, t) == ToLower(s) = ToLower(t)

----------------------------------------------------------------------------
(* File contents, their size and digest *)

Contents == {"hi", "ho", "bye"}

\* len(fileContent), what info.Size() reports
Size(c) == CASE c = "hi" -> 2 [] c = "ho" -> 2 [] c = "bye" -> 3 [] c = "old" -> 3

\* fmt.Sprintf("%x", sha256.Sum256(fileContent)): lower-case hex, one digest per content
Sum256(c) ==
    CASE c = "hi" -> <<"8", "f">> [] c = "ho" -> <<"a", "7">>
      [] c = "bye" -> <<"b", "5">> [] c = "old" -> <<"c", "e">>

----------------------------------------------------------------------------
(* The storage transport (package api), as the syncer sees it.  The zone   *)
(* holds files; a directory exists where a file lies beneath it.           *)

ZoneName == "z"

IsPrefixOf(p, f) == Len(p) <= Len(f) /\ SubSeq(f, 1, Len(p)) = p

\* The directories of zone r: the proper, non-empty prefixes of its files.
RemoteDirs(r) == UNION {{SubSeq(f, 1, n) : n \in 1..(Len(f) - 1)} : f \in DOMAIN r}

\* The Path field of the children of directory p: "/<zone>/<p>/".
ObjPath(p) == <<Sep, ZoneName, Sep>> \o (IF p = <<>> THEN <<>> ELSE Str(p) \o <<Sep>>)

FileObject(r, f) ==
    [Path |-> ObjPath(SubSeq(f, 1, Len(f) - 1)), ObjectName |-> f[Len(f)],
     Length |-> Size(r[f].content),
     Checksum |-> IF r[f].upper THEN ToUpper(Sum256(r[f].content)) ELSE Sum256(r[f].content),
     IsDirectory |-> FALSE]

DirObject(d) ==
    [Path |-> ObjPath(SubSeq(d, 1, Len(d) - 1)), ObjectName |-> d[Len(d)],
     Length |-> 0, Checksum |-> <<>>, IsDirectory |-> TRUE]

\* BCDNStorage.List(path) when the request succeeds: the immediate children of path.
List(r, path) ==
    LET p == Elems(path)
    IN  {FileObject(r, f) : f \in {g \in DOMAIN r : Len(g) = Len(p) + 1 /\ IsPrefixOf(p, g)}}
        \cup {DirObject(d) : d \in {g \in RemoteDirs(r) : Len(g) = Len(p) + 1 /\ IsPrefixOf(p, g)}}

\* BCDNStorage.Upload(path, content, checksum) when the request succeeds: the zone
\* stores the content at path and reports its digest in upper case from then on.
Upload(r, path, content) ==
    LET f == Elems(path)
    IN  [g \in DOMAIN r \cup {f} |-> IF g = f THEN [content |-> content, upper |-> TRUE] ELSE r[g]]

\* BCDNStorage.Delete(path) when the request succeeds.
DeleteObject(r, path) == [g \in DOMAIN r \ {Elems(path)} |-> r[g]]

----------------------------------------------------------------------------
(* Path normalisation of a listed object *)

\* fullPath := obj.Path; "/" appended unless it ends in one or is empty; then the name.
FullPath(obj) ==
    (IF ~HasSuffix(obj.Path, <<Sep>>) /\ obj.Path # <<>> THEN obj.Path \o <<Sep>> ELSE obj.Path)
        \o <<obj.ObjectName>>

NormalizeOnce(obj) ==
    ToSlash(Clean(TrimPrefix(TrimPrefix(FullPath(obj), <<Sep, ZoneName, Sep>>), <<Sep>>)))

\* objPath: the three TrimPrefix calls, then filepath.ToSlash(filepath.Clean(objPath)).
Normalize(obj) ==
    ToSlash(Clean(TrimPrefix(TrimPrefix(TrimPrefix(FullPath(obj),
        <<Sep, ZoneName, Sep>>), <<ZoneName, Sep>>), <<Sep>>)))

\* The effect on a map of objMap[objPath] = obj for the files of one listing.
InsertFiles(m, objs) ==
    LET files == {o \in objs : ~o.IsDirectory}
        keys == {Normalize(o) : o \in files}
    IN  [k \in DOMAIN m \cup keys |->
            IF k \in keys THEN CHOOSE o \in files : Normalize(o) = k ELSE m[k]]

\* The normalised paths of the directories of one listing.
SubDirs(objs) == {Normalize(o) : o \in {x \in objs : x.IsDirectory}}

\* All orders in which the elements of a set can be laid out in a slice.
Orders(S) == {q \in [1..Cardinality(S) -> S] : \A x \in S : \E i \in DOMAIN q : q[i] = x}

----------------------------------------------------------------------------
(* The local tree and the order in which filepath.Walk visits it *)

NameOrder == <<"a", "b", "c", "d", "z">>

LocalDirs(l) == UNION {{SubSeq(f, 1, n) : n \in 0..(Len(f) - 1)} : f \in DOMAIN l} \cup {<<>>}

\* The entries below directory d, in lexical order, each directory followed by its own.
RECURSIVE WalkFrom(_, _, _)
WalkFrom(l, d, i) ==
    IF i > Len(NameOrder) THEN <<>>
    ELSE LET e == Append(d, NameOrder[i])
         IN  (IF e \in DOMAIN l THEN <<[path |-> e, isDir |-> FALSE]>>
              ELSE IF e \in LocalDirs(l) THEN <<[path |-> e, isDir |-> TRUE]>> \o WalkFrom(l, e, 1)
              ELSE <<>>)
             \o WalkFrom(l, d, i + 1)

\* The root first, then everything below it.
WalkList(l) == <<[path |-> <<>>, isDir |-> TRUE]>> \o WalkFrom(l, <<>>, 1)

----------------------------------------------------------------------------
(* The inputs of a run *)

Impls == {"v122", "v120"}

LocalPaths == {<<"a">>, <<"d", "a">>}

RemotePaths == {<<"a">>, <<"d", "a">>, <<"z", "a">>, <<"z", "z", "a">>}

\* The local trees: "a" with any content, the file below "d" with one.
LocalTrees ==
    {l \in UNION {[S -> Contents] : S \in SUBSET LocalPaths} :
        \A f \in DOMAIN l : f # <<"a">> => l[f] = "hi"}

\* The zones: every file holds "hi"; the digest of "a" is listed in either case; a
\* directory named like the zone holds a file or a directory of that name again.
RemoteTrees ==
    {r \in UNION {[S -> [content : {"hi"}, upper : BOOLEAN]] : S \in SUBSET RemotePaths} :
        /\ \A f \in DOMAIN r : f # <<"a">> => ~r[f].upper
        /\ ~({<<"z", "a">>, <<"z", "z", "a">>} \subseteq DOMAIN r)}

\* A flat tree and a flat zone that share one file and hold one file each on their own.
FlatLocal == (<<"a">> :> "hi") @@ (<<"b">> :> "bye")

FlatRemote ==
    (<<"a">> :> [content |-> "hi", upper |-> FALSE])
        @@ (<<"c">> :> [content |-> "old", upper |-> FALSE])

\* The files of a zone that is synchronised below a prefix.
PrefixedRemotePaths == {<<"a">>, <<"d", "a">>}

SyncPaths == {<<>>, <<"d">>}

ConcurrencyInputs == {1, 2}

DefaultConcurrency == 5

\* The List calls of a fetch are recorded up to this many.
MaxListCalls == 5

NoMetrics ==
    [total |-> 0, newFile |-> 0, modifiedFile |-> 0, deletedFile |-> 0, skipped |-> 0, errors |-> 0]

\* The state of one run of Sync before its first statement.
RunInit ==
    /\ pc = "start"
    /\ ret = ""
    /\ objMap = <<>>
    /\ fetched = <<>>
    /\ dirQueue = <<>>
    /\ sending = EmptyBag
    /\ listing = EmptyBag
    /\ wg = 0
    /\ fetchErr = <<>>
    /\ waitDone = FALSE
    /\ processed = {}
    /\ listCalls = EmptyBag
    /\ walkIdx = 1
    /\ metrics = NoMetrics
    /\ operations = <<>>
    /\ walkLog = <<>>
    /\ units = <<>>
    /\ deleteOps = {}
    /\ dunits = <<>>
    /\ sem = 0
    /\ execErrors = 0
    /\ readLog = EmptyBag
    /\ uploadCalls = EmptyBag
    /\ deleteCalls = EmptyBag
    /\ failures = EmptyBag
    /\ summary = <<>>

Init ==
    /\ impl \in Impls
    /\ DryRun \in BOOLEAN
    /\ SizeOnly \in BOOLEAN
    /\ OnlyMissing \in BOOLEAN
    /\ Delete \in BOOLEAN
    /\ Concurrency \in ConcurrencyInputs
    /\ \/ /\ syncPath \in SyncPaths
          /\ local \in LocalTrees
          /\ remote \in RemoteTrees
          /\ syncPath # <<>> => DOMAIN remote \subseteq PrefixedRemotePaths
       \/ /\ syncPath = <<>>
          /\ local = FlatLocal
          /\ remote = FlatRemote
    /\ remote0 = remote
    /\ prev = [kind |-> "none", metrics |-> NoMetrics, operations |-> <<>>, candidates |-> {}]
    /\ RunInit

----------------------------------------------------------------------------
(* Sync, up to the fetch *)

\* syncPath = strings.Trim(syncPath, "/")
SyncPrefix == TrimSlashes(syncPath)

EffectiveConcurrencyRaw(n) == n

\* if s.Concurrency <= 0 { s.Concurrency = 5 }
EffectiveConcurrency(n) == IF n <= 0 THEN DefaultConcurrency ELSE n

\* os.Stat(sourcePath), the default concurrency, and the first statements of the fetch.
SyncStart ==
    /\ pc = "start"
    /\ \E statOK \in BOOLEAN :
        IF ~statOK
        THEN /\ ret' = "source path error"
             /\ pc' = "done"
             /\ UNCHANGED <<Concurrency, dirQueue, wg>>
        ELSE /\ Concurrency' = EffectiveConcurrency(Concurrency)
             /\ dirQueue' = <<SyncPrefix>>
             /\ wg' = IF impl = "v122" THEN 1 ELSE 0
             /\ pc' = "fetch"
             /\ ret' = ret
    /\ UNCHANGED <<cfgVars, remote, objMap, fetched, sending, listing, fetchErr, waitDone,
                   processed, listCalls, walkVars, metrics, execVars, readLog, failures,
                   summary, remote0, prev>>

----------------------------------------------------------------------------
(* fetchAllObjectsParallel (v122) *)

\* The goroutines of the parallel fetch run while Sync waits for them, and go on
\* after the select has taken the timeout: nothing stops them.
FetchRunning ==
    /\ impl = "v122"
    /\ pc = "fetch" \/ ret = "failed to fetch remote objects: listing timeout"

HasSlotAlways(n) == TRUE

HasSlotOne(n) == n < 1

\* A send on a channel of capacity s.Concurrency that holds n values does not block;
\* likewise one of the s.Concurrency workers is free when n of them are busy.
HasSlot(n) == n < Concurrency

\* The record of the List calls after a call on prefix p.
Recorded(calls, p) ==
    IF BagCardinality(calls) < MaxListCalls THEN calls (+) SetToBag({p}) ELSE calls

\* A worker receives a prefix from dirQueue and calls API.List on it.
WorkerReceive ==
    /\ FetchRunning
    /\ dirQueue # <<>>
    /\ HasSlot(BagCardinality(listing))
    /\ dirQueue' = Tail(dirQueue)
    /\ listing' = listing (+) SetToBag({Head(dirQueue)})
    /\ listCalls' = Recorded(listCalls, Head(dirQueue))
    /\ UNCHANGED <<cfgVars, Concurrency, remote, pc, ret, objMap, fetched, sending, wg,
                   fetchErr, waitDone, processed, walkVars, metrics, execVars, readLog,
                   failures, summary, remote0, prev>>

WgAfterListingLost(n, dirs) == n - 1

\* wg.Add(1) for every directory of the listing, wg.Done() when the listing is over.
WgAfterListing(n, dirs) == n + dirs - 1

\* The List call of a worker returns: an error is recorded once, otherwise every
\* directory is handed to an enqueue goroutine and every file is put in the map.
WorkerListed ==
    /\ FetchRunning
    /\ \E path \in BagToSet(listing) : \E ok \in BOOLEAN :
        /\ listing' = listing (-) SetToBag({path})
        /\ IF ~ok
           THEN /\ fetchErr' = IF fetchErr = <<>> THEN <<"list", path>> ELSE fetchErr
                /\ wg' = WgAfterListing(wg, 0)
                /\ UNCHANGED <<objMap, sending>>
           ELSE LET objects == List(remote, path)
                IN  /\ objMap' = InsertFiles(objMap, objects)
                    /\ sending' = sending (+) SetToBag(SubDirs(objects))
                    /\ wg' = WgAfterListing(wg, Cardinality(SubDirs(objects)))
                    /\ fetchErr' = fetchErr
    /\ UNCHANGED <<cfgVars, Concurrency, remote, pc, ret, fetched, dirQueue, waitDone,
                   processed, listCalls, walkVars, metrics, execVars, readLog, failures,
                   summary, remote0, prev>>

\* An enqueue goroutine delivers its prefix: dirQueue <- p.
EnqueueSend ==
    /\ FetchRunning
    /\ \E p \in BagToSet(sending) :
        /\ sending' = sending (-) SetToBag({p})
        /\ IF waitDone
           THEN pc' = "panic" /\ dirQueue' = dirQueue
           ELSE pc' = pc /\ dirQueue' = Append(dirQueue, p)
    /\ UNCHANGED <<cfgVars, Concurrency, remote, ret, objMap, fetched, listing, wg, fetchErr,
                   waitDone, processed, listCalls, walkVars, metrics, execVars, readLog,
                   failures, summary, remote0, prev>>

\* wg.Wait() returns; dirQueue and waitDone are closed.
WaitClose ==
    /\ FetchRunning
    /\ wg = 0 /\ ~waitDone
    /\ waitDone' = TRUE
    /\ UNCHANGED <<cfgVars, Concurrency, remote, pc, ret, objMap, fetched, dirQueue, sending,
                   listing, wg, fetchErr, processed, listCalls, walkVars, metrics, execVars,
                   readLog, failures, summary, remote0, prev>>

FetchFailedNever == FALSE

\* if err != nil, on what the fetch returned
FetchFailed == fetchErr # <<>>

\* select case <-waitDone: the fetch returns objMap and fetchErr; Sync goes on or fails.
FetchReturn ==
    /\ pc = "fetch" /\ impl = "v122"
    /\ waitDone
    /\ IF FetchFailed
       THEN ret' = "failed to fetch remote objects" /\ pc' = "done" /\ fetched' = fetched
       ELSE ret' = ret /\ pc' = "walk" /\ fetched' = objMap
    /\ UNCHANGED <<cfgVars, Concurrency, remote, objMap, fetchVars, walkVars, metrics,
                   execVars, readLog, failures, summary, remote0, prev>>

\* select case <-time.After(15 * time.Minute): the fetch returns the timeout error.
FetchTimeout ==
    /\ pc = "fetch" /\ impl = "v122"
    /\ ret' = "failed to fetch remote objects: listing timeout"
    /\ pc' = "done"
    /\ UNCHANGED <<cfgVars, Concurrency, remote, objMap, fetched, fetchVars, walkVars,
                   metrics, execVars, readLog, failures, summary, remote0, prev>>

----------------------------------------------------------------------------
(* fetchAllObjects (v120) *)

\* One iteration of the queue loop, or the return when the queue is empty.
FetchNext ==
    /\ pc = "fetch" /\ impl = "v120"
    /\ IF dirQueue = <<>>
       THEN /\ pc' = "walk" /\ fetched' = objMap
            /\ UNCHANGED <<ret, objMap, dirQueue, processed, listCalls, fetchErr>>
       ELSE LET current == Head(dirQueue)
            IN  IF current \in processed
                THEN /\ dirQueue' = Tail(dirQueue)
                     /\ UNCHANGED <<pc, ret, objMap, fetched, processed, listCalls, fetchErr>>
                ELSE /\ processed' = processed \cup {current}
                     /\ listCalls' = listCalls (+) SetToBag({current})
                     /\ fetched' = fetched
                     /\ \E ok \in BOOLEAN :
                         IF ~ok
                         THEN /\ fetchErr' = <<"list", current>>
                              /\ ret' = "failed to fetch remote objects"
                              /\ pc' = "done"
                              /\ dirQueue' = Tail(dirQueue)
                              /\ objMap' = objMap
                         ELSE LET objects == List(remote, current)
                              IN  /\ objMap' = InsertFiles(objMap, objects)
                                  /\ \E q \in Orders(SubDirs(objects)) :
                                        dirQueue' = Tail(dirQueue) \o q
                                  /\ UNCHANGED <<pc, ret, fetchErr>>
    /\ UNCHANGED <<cfgVars, Concurrency, remote, sending, listing, wg, waitDone,
                   walkVars, metrics, execVars, readLog, failures, summary, remote0, prev>>

----------------------------------------------------------------------------
(* The walk: the callback Sync hands to filepath.Walk *)

Inc(m, field) == [m EXCEPT ![field] = @ + 1]

WithoutNothing(m, k) == m

\* delete(objMap, relPath)
Without(m, k) == [x \in DOMAIN m \ {k} |-> m[x]]

\* relPath: filepath.Rel, filepath.ToSlash, and the syncPath prefix.
RelPath(path) ==
    LET rel == ToSlash(Str(path))
    IN  IF SyncPrefix # <<>> THEN SyncPrefix \o <<Sep>> \o rel ELSE rel

NextIdxEnd(wl, i, skipDir) == Len(wl) + 1

\* The entry Walk visits after entry i; an unreadable directory's entries are passed over.
NextIdx(wl, i, skipDir) ==
    IF skipDir
    THEN CHOOSE j \in (i + 1)..(Len(wl) + 1) :
            /\ j = Len(wl) + 1 \/ ~IsPrefixOf(wl[i].path, wl[j].path)
            /\ \A k \in (i + 1)..(j - 1) : IsPrefixOf(wl[i].path, wl[k].path)
    ELSE i + 1

Operation(path, relPath, checksum, isNew) ==
    [action |-> "upload", path |-> path, relPath |-> relPath, checksum |-> checksum, isNew |-> isNew]

SkipExistingNever(exists) == FALSE

\* s.OnlyMissing && exists
SkipExisting(exists) == OnlyMissing /\ exists

\* What the callback of v122 does with a file it could access: the new metrics,
\* operations and objMap, and whether it read the file (read) and failed to (failed).
CallbackV122(m0, ops, map, path, content, readOK) ==
    LET relPath == RelPath(path)
        m == Inc(m0, "total")
        exists == relPath \in DOMAIN map
        fsChecksum == Sum256(content)
        out(mm, oo, mp, rd, fl) == [metrics |-> mm, operations |-> oo, objMap |-> mp, read |-> rd, failed |-> fl]
    IN  IF SkipExisting(exists)
        THEN out(Inc(m, "skipped"), ops, Without(map, relPath), FALSE, FALSE)
        ELSE IF ~exists
        THEN out(Inc(m, "newFile"), Append(ops, Operation(path, relPath, <<>>, TRUE)),
                 Without(map, relPath), FALSE, FALSE)
        ELSE IF SizeOnly
        THEN IF map[relPath].Length # Size(content)
             THEN out(Inc(m, "modifiedFile"), Append(ops, Operation(path, relPath, <<>>, FALSE)),
                      Without(map, relPath), FALSE, FALSE)
             ELSE out(Inc(m, "skipped"), ops, Without(map, relPath), FALSE, FALSE)
        ELSE IF ~readOK
        THEN out(Inc(m, "errors"), ops, map, TRUE, TRUE)
        ELSE IF ~EqualFold(fsChecksum, map[relPath].Checksum)
        THEN out(Inc(m, "modifiedFile"), Append(ops, Operation(path, relPath, fsChecksum, FALSE)),
                 Without(map, relPath), TRUE, FALSE)
        ELSE out(Inc(m, "skipped"), ops, Without(map, relPath), TRUE, FALSE)

\* The same for v120, which also reads a new file before it queues the upload.
CallbackV120(m0, ops, map, path, content, readOK) ==
    LET relPath == RelPath(path)
        m == Inc(m0, "total")
        exists == relPath \in DOMAIN map
        fsChecksum == Sum256(content)
        out(mm, oo, mp, rd, fl) == [metrics |-> mm, operations |-> oo, objMap |-> mp, read |-> rd, failed |-> fl]
    IN  IF SkipExisting(exists)
        THEN out(Inc(m, "skipped"), ops, Without(map, relPath), FALSE, FALSE)
        ELSE IF ~exists
        THEN IF SizeOnly
             THEN out(Inc(m, "newFile"), Append(ops, Operation(path, relPath, <<>>, TRUE)),
                      Without(map, relPath), FALSE, FALSE)
             ELSE IF ~readOK
             THEN out(Inc(Inc(m, "newFile"), "errors"), ops, map, TRUE, TRUE)
             ELSE out(Inc(m, "newFile"), Append(ops, Operation(path, relPath, fsChecksum, TRUE)),
                      Without(map, relPath), TRUE, FALSE)
        ELSE IF SizeOnly
        THEN IF map[relPath].Length # Size(content)
             THEN out(Inc(m, "modifiedFile"), Append(ops, Operation(path, relPath, <<>>, FALSE)),
                      Without(map, relPath), FALSE, FALSE)
             ELSE out(Inc(m, "skipped"), ops, Without(map, relPath), FALSE, FALSE)
        ELSE IF ~readOK
        THEN out(Inc(m, "errors"), ops, map, TRUE, TRUE)
        ELSE IF EqualFold(fsChecksum, map[relPath].Checksum)
        THEN out(Inc(m, "skipped"), ops, Without(map, relPath), TRUE, FALSE)
        ELSE out(Inc(m, "modifiedFile"), Append(ops, Operation(path, relPath, fsChecksum, FALSE)),
                 Without(map, relPath), TRUE, FALSE)

Callback(m0, ops, map, path, content, readOK) ==
    IF impl = "v122" THEN CallbackV122(m0, ops, map, path, content, readOK)
    ELSE CallbackV120(m0, ops, map, path, content, readOK)

\* filepath.Walk hands the next entry to the callback.
WalkFunc ==
    /\ pc = "walk"
    /\ walkIdx <= Len(WalkList(local))
    /\ LET wl == WalkList(local)
           e == wl[walkIdx]
       IN  \E accessOK \in BOOLEAN : \E readOK \in BOOLEAN :
            IF ~accessOK
            THEN /\ metrics' = Inc(metrics, "errors")
                 /\ failures' = failures (+) SetToBag({"access"})
                 /\ walkIdx' = NextIdx(wl, walkIdx, e.isDir)
                 /\ UNCHANGED <<operations, walkLog, objMap, readLog>>
            ELSE IF e.isDir
            THEN /\ walkIdx' = walkIdx + 1
                 /\ UNCHANGED <<metrics, failures, operations, walkLog, objMap, readLog>>
            ELSE LET r == Callback(metrics, operations, objMap, e.path, local[e.path], readOK)
                     relPath == RelPath(e.path)
                 IN  /\ metrics' = r.metrics
                     /\ operations' = r.operations
                     /\ objMap' = r.objMap
                     /\ readLog' = IF r.read THEN readLog (+) SetToBag({<<"walk", e.path>>}) ELSE readLog
                     /\ failures' = IF r.failed THEN failures (+) SetToBag({"walkread"}) ELSE failures
                     /\ walkLog' = Append(walkLog,
                            [path |-> e.path, relPath |-> relPath,
                             exists |-> relPath \in DOMAIN objMap,
                             obj |-> IF relPath \in DOMAIN objMap THEN objMap[relPath] ELSE "none",
                             read |-> IF ~r.read THEN "none" ELSE IF r.failed THEN "failed" ELSE "ok"])
                     /\ walkIdx' = walkIdx + 1
    /\ UNCHANGED <<cfgVars, Concurrency, remote, pc, ret, fetched, fetchVars, execVars,
                   summary, remote0, prev>>

\* filepath.Walk has returned nil: the upload executor starts if there is an operation.
WalkReturn ==
    /\ pc = "walk"
    /\ walkIdx > Len(WalkList(local))
    /\ IF Len(operations) > 0
       THEN /\ pc' = "upload"
            /\ units' = [i \in 1..Len(operations) |-> [st |-> "spawned", content |-> "none", checksum |-> <<>>]]
       ELSE /\ pc' = "deletePhase"
            /\ units' = units
    /\ sem' = 0
    /\ execErrors' = 0
    /\ UNCHANGED <<cfgVars, Concurrency, remote, ret, objMap, fetched, fetchVars, walkVars,
                   metrics, deleteOps, dunits, uploadCalls, deleteCalls, readLog, failures,
                   summary, remote0, prev>>

----------------------------------------------------------------------------
(* processOperationsConcurrently: one goroutine per operation *)

SetUnit(u, i, st, content, checksum) ==
    [u EXCEPT ![i] = [st |-> st, content |-> content, checksum |-> checksum]]

\* sem <- struct{}{}
UploadAcquire ==
    /\ pc = "upload"
    /\ \E i \in DOMAIN units :
        /\ units[i].st = "spawned"
        /\ HasSlot(sem)
        /\ sem' = sem + 1
        /\ units' = SetUnit(units, i, "acquired", "none", <<>>)
    /\ UNCHANGED <<cfgVars, Concurrency, remote, pc, ret, objMap, fetched, fetchVars, walkVars,
                   metrics, deleteOps, dunits, execErrors, uploadCalls, deleteCalls, readLog,
                   failures, summary, remote0, prev>>

\* Whether a unit that has read its file goes on to call API.Upload.
CallsUploadAlways == TRUE

CallsUpload == ~DryRun

ReleasedUnlessFailed(n, failed) == IF failed THEN n ELSE n - 1

\* defer func() { <-sem }(): the slot is given back however the unit ends.
Released(n, failed) == n - 1

SentChecksumOfWalk(op, content) == op.checksum

\* The checksum argument of the Upload call: the second result of the executor's
\* getFileContent(o.path).
SentChecksum(op, content) == Sum256(content)

\* getFileContent(op.path), then API.Upload is called unless this is a dry run; a unit
\* that fails to read, or has nothing to send, releases its slot and is done.
UploadRead ==
    /\ pc = "upload"
    /\ \E i \in DOMAIN units : \E readOK \in BOOLEAN :
        LET op == operations[i]
            content == local[op.path]
        IN  /\ units[i].st = "acquired"
            /\ readLog' = readLog (+) SetToBag({<<"exec", op.path>>})
            /\ IF ~readOK
               THEN /\ metrics' = Inc(metrics, "errors")
                    /\ execErrors' = IF impl = "v120" THEN execErrors + 1 ELSE execErrors
                    /\ failures' = failures (+) SetToBag({"execread"})
                    /\ sem' = Released(sem, TRUE)
                    /\ units' = SetUnit(units, i, "done", "none", <<>>)
                    /\ uploadCalls' = uploadCalls
               ELSE /\ UNCHANGED <<metrics, execErrors, failures>>
                    /\ IF CallsUpload
                       THEN /\ units' = SetUnit(units, i, "uploading", content,
                                                 SentChecksum(op, content))
                            /\ uploadCalls' = uploadCalls (+) SetToBag({
                                   [relPath |-> op.relPath, content |-> content,
                                    checksum |-> SentChecksum(op, content)]})
                            /\ sem' = sem
                       ELSE /\ units' = SetUnit(units, i, "done", content, Sum256(content))
                            /\ uploadCalls' = uploadCalls
                            /\ sem' = Released(sem, FALSE)
    /\ UNCHANGED <<cfgVars, Concurrency, remote, pc, ret, objMap, fetched, fetchVars, walkVars,
                   deleteOps, dunits, deleteCalls, summary, remote0, prev>>

\* API.Upload returns; the unit counts an error and releases its slot.
UploadReturn ==
    /\ pc = "upload"
    /\ \E i \in DOMAIN units : \E ok \in BOOLEAN :
        /\ units[i].st = "uploading"
        /\ IF ok
           THEN /\ remote' = Upload(remote, operations[i].relPath, units[i].content)
                /\ UNCHANGED <<metrics, execErrors, failures>>
           ELSE /\ remote' = remote
                /\ metrics' = Inc(metrics, "errors")
                /\ execErrors' = IF impl = "v120" THEN execErrors + 1 ELSE execErrors
                /\ failures' = failures (+) SetToBag({"upload"})
        /\ sem' = Released(sem, ~ok)
        /\ units' = [units EXCEPT ![i].st = "done"]
    /\ UNCHANGED <<cfgVars, Concurrency, pc, ret, objMap, fetched, fetchVars, walkVars,
                   deleteOps, dunits, uploadCalls, deleteCalls, readLog, summary, remote0, prev>>

WgWaitAlways(u) == TRUE

\* wg.Wait() returns when every goroutine of u has called wg.Done().
WgWait(u) == \A i \in DOMAIN u : u[i].st = "done"

\* wg.Wait() returns.  v120 returns an error when its errors slice is not empty, and
\* Sync returns that error at once.
UploadWait ==
    /\ pc = "upload"
    /\ WgWait(units)
    /\ IF impl = "v120" /\ execErrors > 0
       THEN ret' = "upload errors occurred" /\ pc' = "done"
       ELSE ret' = ret /\ pc' = "deletePhase"
    /\ UNCHANGED <<cfgVars, Concurrency, remote, objMap, fetched, fetchVars, walkVars, metrics,
                   execVars, readLog, failures, summary, remote0, prev>>

----------------------------------------------------------------------------
(* The delete phase and processDeletesConcurrently *)

DeleteCandidatesFetched(map) == {p \in DOMAIN fetched : ~fetched[p].IsDirectory}

DeleteCandidatesAll(map) == DOMAIN map

\* The entries left in objMap that are not directories.
DeleteCandidates(map) == {p \in DOMAIN map : ~map[p].IsDirectory}

DeleteGuardAlways == TRUE

DeleteGuardWet == Delete /\ ~DryRun

\* s.Delete
DeleteGuard == Delete

\* deleteOps is collected and, with Delete set, one goroutine per path is started.
DeletePhase ==
    /\ pc = "deletePhase"
    /\ LET ops == DeleteCandidates(objMap)
       IN  IF DeleteGuard /\ ops # {}
           THEN /\ deleteOps' = ops
                /\ metrics' = [metrics EXCEPT !.deletedFile = Cardinality(ops)]
                /\ dunits' = [p \in ops |-> "spawned"]
                /\ pc' = "delete"
           ELSE /\ deleteOps' = IF impl = "v120" THEN ops ELSE deleteOps
                /\ UNCHANGED <<metrics, dunits>>
                /\ pc' = "summary"
    /\ sem' = 0
    /\ execErrors' = 0
    /\ UNCHANGED <<cfgVars, Concurrency, remote, ret, objMap, fetched, fetchVars, walkVars,
                   units, uploadCalls, deleteCalls, readLog, failures, summary, remote0, prev>>

CallsDeleteAlways == TRUE

CallsDelete == ~DryRun

\* sem <- struct{}{}, then API.Delete is called unless this is a dry run.
DeleteAcquire ==
    /\ pc = "delete"
    /\ \E p \in DOMAIN dunits :
        /\ dunits[p] = "spawned"
        /\ HasSlot(sem)
        /\ sem' = sem + 1
        /\ dunits' = [dunits EXCEPT ![p] = "running"]
        /\ deleteCalls' = IF CallsDelete THEN deleteCalls (+) SetToBag({p}) ELSE deleteCalls
    /\ UNCHANGED <<cfgVars, Concurrency, remote, pc, ret, objMap, fetched, fetchVars, walkVars,
                   metrics, units, deleteOps, execErrors, uploadCalls, readLog, failures,
                   summary, remote0, prev>>

\* API.Delete returns (or the dry run has logged); the slot is released.  v122 drops
\* the result of API.Delete; v120 counts an error.
DeleteReturn ==
    /\ pc = "delete"
    /\ \E p \in DOMAIN dunits : \E ok \in BOOLEAN :
        /\ dunits[p] = "running"
        /\ IF ~CallsDelete
           THEN UNCHANGED <<remote, metrics, execErrors, failures>>
           ELSE IF ok
           THEN /\ remote' = DeleteObject(remote, p)
                /\ UNCHANGED <<metrics, execErrors, failures>>
           ELSE /\ remote' = remote
                /\ failures' = failures (+) SetToBag({"delete"})
                /\ metrics' = IF impl = "v120" THEN Inc(metrics, "errors") ELSE metrics
                /\ execErrors' = IF impl = "v120" THEN execErrors + 1 ELSE execErrors
        /\ sem' = Released(sem, CallsDelete /\ ~ok)
        /\ dunits' = [dunits EXCEPT ![p] = "done"]
    /\ UNCHANGED <<cfgVars, Concurrency, pc, ret, objMap, fetched, fetchVars, walkVars, units,
                   deleteOps, uploadCalls, deleteCalls, readLog, summary, remote0, prev>>

\* wg.Wait() returns; as for the uploads, v120 makes Sync return its error at once.
DeleteWait ==
    /\ pc = "delete"
    /\ \A p \in DOMAIN dunits : dunits[p] = "done"
    /\ IF impl = "v120" /\ execErrors > 0
       THEN ret' = "delete errors occurred" /\ pc' = "done"
       ELSE ret' = ret /\ pc' = "summary"
    /\ UNCHANGED <<cfgVars, Concurrency, remote, objMap, fetched, fetchVars, walkVars, metrics,
                   execVars, readLog, failures, summary, remote0, prev>>

----------------------------------------------------------------------------
(* The summary and Sync's return value *)

\* The counters the summary prints: v122 prints no skipped count, v120 prints the
\* error count only when it is not zero.
Printed(m) ==
    IF impl = "v122"
    THEN [total |-> m.total, newFile |-> m.newFile, modifiedFile |-> m.modifiedFile,
          deletedFile |-> m.deletedFile, errors |-> m.errors]
    ELSE IF m.errors > 0 THEN m
    ELSE [total |-> m.total, newFile |-> m.newFile, modifiedFile |-> m.modifiedFile,
          deletedFile |-> m.deletedFile, skipped |-> m.skipped]

SummaryAndReturn ==
    /\ pc = "summary"
    /\ summary' = <<Printed(metrics)>>
    /\ ret' = IF impl = "v120" /\ metrics.errors > 0 THEN "sync completed with errors" ELSE "nil"
    /\ pc' = "done"
    /\ UNCHANGED <<cfgVars, Concurrency, remote, objMap, fetched, fetchVars, walkVars, metrics,
                   execVars, readLog, failures, remote0, prev>>

--------------------------------------------------------------------------------------------------------------------------------------------------
(* Further runs of Sync on the same trees *)

\* What a run that has returned leaves for the comparison with the next one.
Outcome(kind) ==
    [kind |-> kind, metrics |-> metrics, operations |-> operations,
     candidates |-> DeleteCandidates(objMap)]

\* Sync is entered again: the locals of the previous call are gone.
Restart ==
    /\ remote0' = remote
    /\ pc' = "start"
    /\ ret' = ""
    /\ objMap' = <<>>
    /\ fetched' = <<>>
    /\ dirQueue' = <<>>
    /\ sending' = EmptyBag
    /\ listing' = EmptyBag
    /\ wg' = 0
    /\ fetchErr' = <<>>
    /\ waitDone' = FALSE
    /\ processed' = {}
    /\ listCalls' = EmptyBag
    /\ walkIdx' = 1
    /\ metrics' = NoMetrics
    /\ operations' = <<>>
    /\ walkLog' = <<>>
    /\ units' = <<>>
    /\ deleteOps' = {}
    /\ dunits' = <<>>
    /\ sem' = 0
    /\ execErrors' = 0
    /\ readLog' = EmptyBag
    /\ uploadCalls' = EmptyBag
    /\ deleteCalls' = EmptyBag
    /\ failures' = EmptyBag
    /\ summary' = <<>>

\* A second run of Sync with the same flags on the same trees, after a first run
\* that completed with every transport call and every read succeeding.
SyncAgain ==
    /\ pc = "done"
    /\ prev.kind = "none"
    /\ summary # <<>>
    /\ ret = "nil"
    /\ failures = EmptyBag
    /\ prev' = Outcome("completed")
    /\ Restart
    /\ UNCHANGED <<cfgVars, Concurrency, remote>>

\* A dry run that printed its summary and met no access or read error in the walk
\* is followed by a run on the same trees with the same flags but DryRun unset.
SyncWet ==
    /\ pc = "done"
    /\ prev.kind = "none"
    /\ DryRun
    /\ summary # <<>>
    /\ ~BagIn("access", failures) /\ ~BagIn("walkread", failures)
    /\ prev' = Outcome("dry")
    /\ DryRun' = FALSE
    /\ Restart
    /\ UNCHANGED <<impl, SizeOnly, OnlyMissing, Delete, syncPath, local, Concurrency, remote>>

------
(* Specifications *)

Run ==
    \/ SyncStart
    \/ WorkerReceive
    \/ WorkerListed
    \/ EnqueueSend
    \/ WaitClose
    \/ FetchReturn
    \/ FetchTimeout
    \/ FetchNext
    \/ WalkFunc
    \/ WalkReturn
    \/ UploadAcquire
    \/ UploadRead
    \/ UploadReturn
    \/ UploadWait
    \/ DeletePhase
    \/ DeleteAcquire
    \/ DeleteReturn
    \/ DeleteWait
    \/ SummaryAndReturn

Next == Run

Spec == Init /\ [][Next]_vars

\* Two runs of Sync in succession.
NextTwice == Run \/ SyncAgain

SpecTwice == Init /\ [][NextTwice]_vars

\* A dry run of Sync followed by the real one.
NextDryWet == Run \/ SyncWet

SpecDryWet == Init /\ [][NextDryWet]_vars

\* Runs of Sync in which a goroutine of an executor that can take a step
\* eventually takes it: every read and every call returns, and wg.Wait returns
\* once the counter is zero.
ExecutorFairness ==
    /\ WF_vars(UploadAcquire) /\ WF_vars(UploadRead) /\ WF_vars(UploadReturn)
    /\ WF_vars(UploadWait)
    /\ WF_vars(DeleteAcquire) /\ WF_vars(DeleteReturn) /\ WF_vars(DeleteWait)

\* The runs on a zone that has no directory named like the zone under its root.
InitLive == Init /\ \A f \in DOMAIN remote : f[1] # ZoneName

SpecLive == InitLive /\ [][Next]_vars /\ ExecutorFairness

\* Every List call returns and every goroutine of the fetch is scheduled again: the
\* workers, the enqueue goroutines, the quiescence waiter and the caller's select.
FetchFairness ==
    /\ WF_vars(WorkerReceive) /\ WF_vars(WorkerListed) /\ WF_vars(EnqueueSend)
    /\ WF_vars(WaitClose) /\ WF_vars(FetchReturn) /\ WF_vars(FetchNext)

SpecFetchLive == Init /\ [][Next]_vars /\ FetchFairness

\* A local tree of three files, for executors with more units than slots.
WideLocal == (<<"a">> :> "hi") @@ (<<"b">> :> "bye") @@ (<<"c">> :> "ho")

\* The values of Concurrency of a caller that has not set it, or has set it wrongly.
UnsetConcurrency == {0 - 1, 0}

WideRemotes ==
    {FlatRemote, (<<"d", "a">> :> [content |-> "hi", upper |-> FALSE])}

InitWide ==
    /\ impl \in Impls
    /\ DryRun \in BOOLEAN
    /\ SizeOnly = FALSE
    /\ OnlyMissing = FALSE
    /\ Delete \in BOOLEAN
    /\ Concurrency \in ConcurrencyInputs \cup UnsetConcurrency
    /\ syncPath = <<>>
    /\ local = WideLocal
    /\ remote \in WideRemotes
    /\ remote0 = remote
    /\ prev = [kind |-> "none", metrics |-> NoMetrics, operations |-> <<>>, candidates |-> {}]
    /\ RunInit

\* The request of one API.Upload call gets no answer (the http.Client has no
\* timeout): the unit stays in the call, with its slot, and never calls wg.Done().
UploadHang ==
    /\ pc = "upload"
    /\ \A j \in DOMAIN units : units[j].st # "hung"
    /\ \E i \in DOMAIN units :
        /\ units[i].st = "uploading"
        /\ units' = [units EXCEPT ![i].st = "hung"]
    /\ UNCHANGED <<cfgVars, Concurrency, remote, pc, ret, objMap, fetched, fetchVars, walkVars,
                   metrics, deleteOps, dunits, sem, execErrors, uploadCalls, deleteCalls,
                   readLog, failures, summary, remote0, prev>>

\* Runs of Sync in which at most one Upload call never returns.
NextHang == Run \/ UploadHang

\* Every other step of the upload executor that can be taken is taken.
UploadFairness ==
    WF_vars(UploadAcquire) /\ WF_vars(UploadRead) /\ WF_vars(UploadReturn)

SpecHang == InitWide /\ [][NextHang]_vars /\ UploadFairness

\* One run of Sync on the tree of three files, with Concurrency set or not.
SpecWide == InitWide /\ [][Next]_vars

\* Another program writes a local file while Sync walks or uploads: os.ReadFile
\* returns what the file holds at the time of the read.
LocalEdit ==
    /\ pc \in {"walk", "upload"}
    /\ \E f \in DOMAIN local : \E c \in Contents \ {local[f]} :
          local' = [local EXCEPT ![f] = c]
    /\ UNCHANGED <<impl, DryRun, SizeOnly, OnlyMissing, Delete, syncPath, Concurrency, remote,
                   pc, ret, objMap, fetched, fetchVars, walkVars, metrics, execVars, readLog,
                   failures, summary, remote0, prev>>

\* Runs of Sync on a local tree that is written to meanwhile.
NextEdit == Run \/ LocalEdit

InitEdit ==
    /\ impl \in Impls
    /\ DryRun \in BOOLEAN
    /\ SizeOnly \in BOOLEAN
    /\ OnlyMissing \in BOOLEAN
    /\ Delete \in BOOLEAN
    /\ Concurrency \in ConcurrencyInputs
    /\ syncPath = <<>>
    /\ local = FlatLocal
    /\ remote \in WideRemotes
    /\ remote0 = remote
    /\ prev = [kind |-> "none", metrics |-> NoMetrics, operations |-> <<>>, candidates |-> {}]
    /\ RunInit

SpecEdit == InitEdit /\ [][NextEdit]_vars

----------------------------------------------------------------------------
(* Vocabulary of the properties *)

Last(q) == q[Len(q)]

\* The relative paths of the local files.
LocalRel == {RelPath(f) : f \in DOMAIN local}

\* The relative paths the walk callback has classified so far.
Classified == {walkLog[i].relPath : i \in DOMAIN walkLog}

\* Sync returned something other than a source path or listing error.
PastFetch == ret \in {"nil", "sync completed with errors", "upload errors occurred",
                      "delete errors occurred"}

\* filepath.Walk has returned.
Walked == pc \in {"upload", "deletePhase", "delete", "summary"} \/ (pc = "done" /\ PastFetch)

\* processOperationsConcurrently has returned, or there was nothing for it to do.
UploadsOver == pc \in {"deletePhase", "delete", "summary"} \/ (pc = "done" /\ PastFetch)

\* The operations appended for a relative path.
OpsFor(relPath) == {j \in DOMAIN operations : operations[j].relPath = relPath}

\* The file paths of a remote tree under the sync prefix, as relative paths.
RemoteUnder(r) == {Str(f) : f \in {g \in DOMAIN r : IsPrefixOf(Elems(SyncPrefix), g)}}

\* The keys of the fetched remote map that no local file has.
RemoteOnly == {k \in DOMAIN fetched : ~fetched[k].IsDirectory /\ k \notin LocalRel}

\* The callback has just classified a file.
Classifies == walkLog' # walkLog

----------------------------------------------------------------------------
(* C1 *)

\* C1: a remote entry whose relative path is that of a local file the callback
\* classified is no longer in the remote map once the callback has returned, on
\* every path through the classification, and no path passed to Delete is the
\* relative path of a classified local file.
C1_MatchedEntryLeavesTheMap ==
    /\ \A i \in DOMAIN walkLog : walkLog[i].relPath \notin DOMAIN objMap
    /\ \A p \in BagToSet(deleteCalls) : p \notin Classified

----------------------------------------------------------------------------
(* C2 *)

\* C2: when the summary is printed, the total equals the sum of the new, the
\* modified and the skipped counts, and no more entries were counted than there
\* are local files.
C2_TotalIsSumOfClasses ==
    summary # <<>> =>
        /\ metrics.total = metrics.newFile + metrics.modifiedFile + metrics.skipped
        /\ metrics.total <= Cardinality(DOMAIN local)

----------------------------------------------------------------------------
(* C3 *)

\* C3: after a run that is not a dry run, printed its summary and saw no List,
\* Upload, Delete, access or read failure, the remote file paths under the sync
\* prefix are the local relative paths when Delete is set, and the local relative
\* paths together with the remote paths of before the run when it is not.
C3_RemoteMirrorsLocal ==
    (pc = "done" /\ summary # <<>> /\ ~DryRun /\ failures = EmptyBag) =>
        RemoteUnder(remote) = IF Delete THEN LocalRel
                              ELSE LocalRel \cup RemoteUnder(remote0)

----------------------------------------------------------------------------
(* C4 *)

\* C4: with Delete unset, a second run that follows a run in which every call and
\* every read succeeded calls neither API.Upload nor API.Delete.
C4_SecondRunIsIdle ==
    (prev.kind = "completed" /\ ~Delete) => uploadCalls = EmptyBag /\ deleteCalls = EmptyBag

----------------------------------------------------------------------------
(* C5 *)

\* C5: a local file the callback found absent from the remote map has exactly one
\* operation, with isNew set, newFile counts exactly these files, and once the
\* upload executor has returned each operation's file was read by it exactly once.
C5_NewFileScheduledOnce ==
    /\ \A i \in DOMAIN walkLog :
          ~walkLog[i].exists =>
              /\ Cardinality(OpsFor(walkLog[i].relPath)) = 1
              /\ \A j \in OpsFor(walkLog[i].relPath) : operations[j].isNew
    /\ metrics.newFile = Cardinality({i \in DOMAIN walkLog : ~walkLog[i].exists})
    /\ UploadsOver =>
          \A j \in DOMAIN operations : CopiesIn(<<"exec", operations[j].path>>, readLog) = 1

----------------------------------------------------------------------------
(* C6 *)

\* The file of walk record w has the digest (default mode) or the size (size-only
\* mode) of its remote entry.
SameAsRemote(w) ==
    /\ w.exists
    /\ \/ /\ ~SizeOnly /\ ~OnlyMissing /\ w.read = "ok"
          /\ ToLower(Sum256(local[w.path])) = ToLower(w.obj.Checksum)
       \/ /\ SizeOnly
          /\ Size(local[w.path]) = w.obj.Length

\* C6: the callback step that classifies a file whose digest equals the remote
\* checksum up to letter case (default mode), or whose size equals the remote
\* length (size-only mode), adds one to skipped, to total and to nothing else,
\* and appends no operation.
C6_MatchingFileIsSkipped ==
    [][(Classifies /\ SameAsRemote(Last(walkLog'))) =>
          /\ metrics' = [metrics EXCEPT !.total = @ + 1, !.skipped = @ + 1]
          /\ operations' = operations]_vars

\* A file was skipped in default mode although the remote checksum is spelled in
\* the other letter case.
C6_Witness ==
    \E i \in DOMAIN walkLog :
        /\ SameAsRemote(walkLog[i])
        /\ ~SizeOnly
        /\ walkLog[i].obj.Checksum # Sum256(local[walkLog[i].path])
        /\ metrics.skipped > 0

----------------------------------------------------------------------------
(* C7 *)

\* The file of walk record w differs from its remote entry in digest (default
\* mode) or in size (size-only mode), only-missing being off.
DiffersFromRemote(w) ==
    /\ w.exists
    /\ ~OnlyMissing
    /\ \/ /\ ~SizeOnly /\ w.read = "ok"
          /\ ToLower(Sum256(local[w.path])) # ToLower(w.obj.Checksum)
       \/ /\ SizeOnly
          /\ Size(local[w.path]) # w.obj.Length

\* C7: the callback step that classifies a file differing from its remote entry
\* adds one to modifiedFile, to total and to nothing else, appends exactly one
\* operation, for this file and with isNew unset, and leaves the remote map
\* without the entry.
C7_DifferingFileIsModified ==
    [][(Classifies /\ DiffersFromRemote(Last(walkLog'))) =>
          /\ metrics' = [metrics EXCEPT !.total = @ + 1, !.modifiedFile = @ + 1]
          /\ Len(operations') = Len(operations) + 1
          /\ SubSeq(operations', 1, Len(operations)) = operations
          /\ Last(operations').relPath = Last(walkLog').relPath
          /\ Last(operations').path = Last(walkLog').path
          /\ ~Last(operations').isNew
          /\ Last(walkLog').relPath \in DOMAIN objMap
          /\ Last(walkLog').relPath \notin DOMAIN objMap']_vars

\* A file found modified in size-only mode has been uploaded over its remote entry.
C7_Witness ==
    /\ pc = "done"
    /\ SizeOnly
    /\ \E i \in DOMAIN walkLog :
        /\ DiffersFromRemote(walkLog[i])
        /\ metrics.modifiedFile > 0
        /\ \E c \in BagToSet(uploadCalls) : c.relPath = walkLog[i].relPath

----------------------------------------------------------------------------
(* C8 *)

\* C8: in a run that got past the walk and has returned, with Delete set every key
\* of the fetched remote map that no local file has got one delete unit, which
\* ran, and API.Delete was called once for it unless this is a dry run; with
\* Delete unset API.Delete was not called.
C8_RemoteOnlyIsDeletedOnce ==
    (pc = "done" /\ PastFetch) =>
        IF Delete
        THEN \A k \in RemoteOnly :
                /\ k \in DOMAIN dunits
                /\ dunits[k] = "done"
                /\ ~DryRun => CopiesIn(k, deleteCalls) = 1
        ELSE deleteCalls = EmptyBag

----------------------------------------------------------------------------
(* C9 *)

\* C9: with OnlyMissing set, the callback step that classifies a file whose
\* relative path is in the remote map appends no operation, adds one to skipped,
\* to total and to nothing else, and leaves the map without the entry; and
\* API.Upload is never called for such a path.
C9_OnlyMissingNeverUploadsExisting ==
    /\ [](OnlyMissing =>
            \A i \in DOMAIN walkLog :
                walkLog[i].exists =>
                    /\ OpsFor(walkLog[i].relPath) = {}
                    /\ \A c \in BagToSet(uploadCalls) : c.relPath # walkLog[i].relPath)
    /\ [][(Classifies /\ OnlyMissing /\ Last(walkLog').exists) =>
            /\ operations' = operations
            /\ metrics' = [metrics EXCEPT !.total = @ + 1, !.skipped = @ + 1]
            /\ Last(walkLog').relPath \notin DOMAIN objMap']_vars

\* An only-missing run has returned that skipped a file whose content differs from
\* its remote entry in digest and in size, and uploaded another one.
C9_Witness ==
    /\ pc = "done"
    /\ OnlyMissing
    /\ uploadCalls # EmptyBag
    /\ \E i \in DOMAIN walkLog :
        /\ walkLog[i].exists
        /\ Size(local[walkLog[i].path]) # walkLog[i].obj.Length
        /\ ToLower(Sum256(local[walkLog[i].path])) # ToLower(walkLog[i].obj.Checksum)

----------------------------------------------------------------------------
(* C10 *)

\* C10: with DryRun set, API.Upload and API.Delete are never called and the remote
\* tree stays as it was; and once the upload executor has returned, every
\* operation's unit has read its file exactly once and, where the read succeeded,
\* holds the digest of the file's content.
C10_DryRunCallsNothing ==
    DryRun =>
        /\ uploadCalls = EmptyBag
        /\ deleteCalls = EmptyBag
        /\ remote = remote0
        /\ UploadsOver =>
              \A j \in DOMAIN operations :
                  /\ CopiesIn(<<"exec", operations[j].path>>, readLog) = 1
                  /\ units[j].st = "done"
                  /\ units[j].content # "none" =>
                        /\ units[j].content = local[operations[j].path]
                        /\ units[j].checksum = Sum256(local[operations[j].path])

\* A dry run has returned that had an upload unit, which read its file, and a
\* delete unit.
C10_Witness ==
    /\ pc = "done"
    /\ DryRun
    /\ \E j \in DOMAIN units : units[j].content # "none"
    /\ \E k \in DOMAIN dunits : dunits[k] = "done"

----------------------------------------------------------------------------
(* C11 *)

\* The counters of the classification and of the delete phase.
Counts(m) == <<m.total, m.newFile, m.modifiedFile, m.skipped, m.deletedFile>>

----------------------------------------------------------------------------
(* C12 *)

\* C12: when Sync has returned nil, the error counter is zero and no access, read,
\* Upload or Delete failure occurred in the run.
C12_ErrorsMakeSyncFail ==
    (pc = "done" /\ ret = "nil") => metrics.errors = 0 /\ failures = EmptyBag

----------------------------------------------------------------------------
(* C13 *)

\* C13: when a run that got past the walk has returned, whatever failed, every
\* upload unit has run to its end, with Delete set every delete candidate has a
\* delete unit that has run to its end, and the summary was printed.
C13_ItemFailureDoesNotAbort ==
    (pc = "done" /\ PastFetch) =>
        /\ DOMAIN units = DOMAIN operations
        /\ \A j \in DOMAIN units : units[j].st = "done"
        /\ Delete => \A k \in DeleteCandidates(objMap) : k \in DOMAIN dunits /\ dunits[k] = "done"
        /\ summary # <<>>

----------------------------------------------------------------------------
(* C14 *)

\* C14: when Sync has returned, the error counter equals the number of access
\* errors, read failures, failed Upload calls and failed Delete calls of the run.
C14_ErrorsCountFailures ==
    pc = "done" => metrics.errors = BagCardinality(failures)

----------------------------------------------------------------------------
(* C15 *)

\* The messages of the errors Sync returns when the fetch failed.
FetchErrors == {"failed to fetch remote objects", "failed to fetch remote objects: listing timeout"}

\* C15: once a List call has failed or the fetch has timed out, Sync never enters
\* the walk: it returns a fetch error, no file is classified or counted, no
\* operation is collected, the map the fetch was filling is never handed to the
\* walk, and API.Upload and API.Delete are not called.
C15_FailedFetchStopsSync ==
    (fetchErr # <<>> \/ ret \in FetchErrors) =>
        /\ pc \in {"fetch", "done"}
        /\ pc = "done" => ret \in FetchErrors
        /\ fetched = <<>>
        /\ walkLog = <<>> /\ walkIdx = 1
        /\ metrics = NoMetrics
        /\ operations = <<>>
        /\ uploadCalls = EmptyBag /\ deleteCalls = EmptyBag
        /\ remote = remote0

\* Sync has returned the error of a List call that failed after another one had
\* put a file in the map, and there are local files.
C15_Witness ==
    /\ pc = "done"
    /\ fetchErr # <<>>
    /\ objMap # <<>>
    /\ local # <<>>

----------------------------------------------------------------------------
(* C16 *)

\* C16: whenever Sync has returned, the summary was printed, with the total, new,
\* modified, deleted, skipped and error counts of the run.
C16_SummaryAlwaysPrinted ==
    pc = "done" => summary = <<metrics>>

----------------------------------------------------------------------------
(* C17 *)

\* The upload and delete units that hold a slot.
InFlightUploads == {j \in DOMAIN units : units[j].st \in {"acquired", "uploading"}}

InFlightDeletes == {k \in DOMAIN dunits : dunits[k] = "running"}

\* C17: at no time do more than s.Concurrency upload units, delete units or List
\* calls hold a slot, and the slots taken are those of the units in flight.
C17_ConcurrencyCeiling ==
    /\ Cardinality(InFlightUploads) <= Concurrency
    /\ Cardinality(InFlightDeletes) <= Concurrency
    /\ BagCardinality(listing) <= Concurrency
    /\ sem <= Concurrency
    /\ pc = "upload" => sem = Cardinality(InFlightUploads)
    /\ pc = "delete" => sem = Cardinality(InFlightDeletes)

\* Every slot is taken by an Upload call in flight while another upload unit
\* waits for one.
C17_Witness ==
    /\ pc = "upload"
    /\ Cardinality(InFlightUploads) = Concurrency
    /\ \E j \in DOMAIN units : units[j].st = "spawned"
    /\ \E j \in DOMAIN units : units[j].st = "uploading"

----------------------------------------------------------------------------
(* C18 *)

\* C18: the upload executor returns only when every upload unit has run to its
\* end and the delete executor only when every delete unit has; and where every
\* read and call returns, an executor that was started returns.
C18_ExecutorWaitsAndReturns ==
    /\ [][(pc = "upload" /\ pc' # "upload") =>
            \A j \in DOMAIN operations : j \in DOMAIN units /\ units[j].st = "done"]_vars
    /\ [][(pc = "delete" /\ pc' # "delete") =>
            \A k \in deleteOps : k \in DOMAIN dunits /\ dunits[k] = "done"]_vars
    /\ (pc = "upload") ~> (pc # "upload")
    /\ (pc = "delete") ~> (pc # "delete")

\* The upload executor has returned in a run where more units were scheduled than
\* there are slots, and an Upload call failed.
C18_Witness ==
    /\ pc = "deletePhase"
    /\ Len(operations) > Concurrency
    /\ BagIn("upload", failures)

----------------------------------------------------------------------------
(* C19 *)

\* The files of the zone at and below the fetch's root prefix.
Reachable == {f \in DOMAIN remote0 : IsPrefixOf(Elems(SyncPrefix), f)}

\* C19: the map a fetch without a List failure and without timeout hands to the
\* walk holds every file of the zone below the root prefix under its path in the
\* zone, and nothing else: no directory and no other key.
C19_FetchedMapIsTheZone ==
    (pc = "walk" \/ Walked) =>
        /\ \A f \in Reachable :
              Str(f) \in DOMAIN fetched /\ fetched[Str(f)] = FileObject(remote0, f)
        /\ \A k \in DOMAIN fetched :
              ~fetched[k].IsDirectory /\ \E f \in Reachable : k = Str(f)

----------------------------------------------------------------------------
(* C20 *)

\* C20: in one fetch no prefix is passed to API.List more than once.
C20_PrefixListedOnce ==
    \A p \in BagToSet(listCalls) : CopiesIn(p, listCalls) = 1

\* C21.  Once a List error has been recorded during a fetch, no List call is started
\* for a further prefix, and the recorded error (the one the fetch returns) is never
\* replaced by a later one.
C21_NoListAfterFirstError ==
    [][fetchErr # <<>> => listCalls' = listCalls /\ fetchErr' = fetchErr]_vars

\* C22.  In every run and every mode each local file is read from disk at most once:
\* a file the walker has read for the checksum comparison is not read again by the
\* executor for its upload.
C22_FileReadAtMostOnce ==
    \A f \in DOMAIN local :
        CopiesIn(<<"walk", f>>, readLog) + CopiesIn(<<"exec", f>>, readLog) <= 1

\* C23.  For the local tree {a: "hi", b: "bye"} and the zone {a with the digest of
\* "hi", c with the digest of "old"}, without SizeOnly and OnlyMissing and without an
\* access or read error in the walk: once the walk is over a has been skipped, the
\* only scheduled upload is b and it is new, c is the only delete candidate, and the
\* counters are total 2, new 1, modified 0, skipped 1.
C23_FlatScenario ==
    (/\ local = FlatLocal /\ remote0 = FlatRemote
     /\ ~SizeOnly /\ ~OnlyMissing
     /\ Walked
     /\ ~BagIn("access", failures) /\ ~BagIn("walkread", failures))
    => /\ metrics.total = 2 /\ metrics.newFile = 1
       /\ metrics.modifiedFile = 0 /\ metrics.skipped = 1
       /\ Len(operations) = 1
       /\ operations[1].relPath = RelPath(<<"b">>) /\ operations[1].isNew
       /\ OpsFor(RelPath(<<"a">>)) = {}
       /\ DeleteCandidates(objMap) = {RelPath(<<"c">>)}
       /\ deleteOps \subseteq {RelPath(<<"c">>)} /\ DOMAIN dunits = deleteOps \cap DOMAIN dunits
       /\ metrics.deletedFile = IF DOMAIN dunits = {} THEN 0 ELSE 1

C23_Witness ==
    /\ local = FlatLocal /\ remote0 = FlatRemote
    /\ ~SizeOnly /\ ~OnlyMissing /\ Delete /\ ~DryRun
    /\ pc = "done" /\ failures = EmptyBag
    /\ metrics.deletedFile = 1
    /\ DOMAIN remote = {<<"a">>, <<"b">>}

\* C24.  When the local root is inaccessible Sync returns an error at its first step,
\* before any List, Upload or Delete call and before any file is classified or
\* counted.  Nothing else ends the walk early: after each callback, whether it met an
\* access error, a read error or neither, Walk goes on with the next entry (passing
\* over only the entries below a directory it could not read), and Sync leaves the
\* walk only after the last entry, to its upload or delete phase.
C24_OnlyRootErrorAborts ==
    /\ [](ret = "source path error" =>
            /\ pc = "done"
            /\ listCalls = EmptyBag /\ uploadCalls = EmptyBag /\ deleteCalls = EmptyBag
            /\ walkLog = <<>> /\ metrics = NoMetrics /\ readLog = EmptyBag)
    /\ [][pc = "start" => \/ pc' = "done" /\ ret' = "source path error"
                          \/ pc' = "fetch" /\ ret' = ""]_vars
    /\ [][pc = "walk" =>
            LET wl == WalkList(local)
            IN  IF walkIdx <= Len(wl)
                THEN /\ pc' = "walk" /\ ret' = ""
                     /\ walkIdx' > walkIdx
                     /\ \A k \in (walkIdx + 1)..(walkIdx' - 1) :
                            /\ wl[walkIdx].isDir
                            /\ IsPrefixOf(wl[walkIdx].path, wl[k].path)
                ELSE pc' \in {"upload", "deletePhase"} /\ ret' = ""]_vars

C24_Witness ==
    /\ pc = "done" /\ ret = "source path error"
    /\ DOMAIN local # {} /\ DOMAIN remote # {}

\* C25.  In every run the relative paths with a scheduled upload and the relative
\* paths with a scheduled delete are disjoint, and so are the paths passed to
\* Upload and the paths passed to Delete.
C25_UploadsAndDeletesDisjoint ==
    LET uploads == {operations[j].relPath : j \in DOMAIN operations}
    IN  /\ uploads \cap (DOMAIN dunits \cup deleteOps) = {}
        /\ uploads \cap DOMAIN objMap = {}
        /\ {c.relPath : c \in BagToSet(uploadCalls)} \cap BagToSet(deleteCalls) = {}

C25_Witness ==
    /\ pc = "done"
    /\ uploadCalls # EmptyBag /\ deleteCalls # EmptyBag
    /\ \E j \in DOMAIN operations : ~operations[j].isNew

\* C26.  In the parallel fetch the pending-work counter is never negative and equals
\* the number of prefixes that wait in an enqueue goroutine, lie in the queue or are
\* being listed, so that every enqueued prefix counts once until its listing has
\* ended, with a result or with an error; the queue is closed and completion is
\* signalled only with the counter at zero, the queue empty and no listing under way.
C26_PendingCounter ==
    impl = "v122" =>
        /\ wg >= 0
        /\ wg = BagCardinality(sending) + Len(dirQueue) + BagCardinality(listing)
        /\ waitDone => wg = 0 /\ dirQueue = <<>> /\ listing = EmptyBag /\ sending = EmptyBag
        /\ pc # "panic"

C26_Witness ==
    /\ impl = "v122" /\ waitDone /\ pc = "fetch"
    /\ BagCardinality(listCalls) >= 3
    /\ fetchErr # <<>>

\* C27.  With every List call returning and every goroutine scheduled again, a fetch
\* that has started comes to its end for every zone, every interleaving of the
\* workers and every Concurrency: the queue is closed and the fetch returns, and no
\* send is made on the closed queue.
C27_FetchTerminates ==
    /\ (pc = "fetch") ~> (pc # "fetch")
    /\ [](pc # "panic")

\* C28.  A slot is held by exactly the units that have acquired it and have not yet
\* ended, whether they end well or by a read, Upload or Delete failure, so that all
\* slots are free when an executor returns; and with one slot, once a unit has failed,
\* every other unit of the executor still gets the slot and runs to its end.
C28_FailedUnitReleasesSlot ==
    /\ [](pc = "upload" =>
            sem = Cardinality({j \in DOMAIN units : units[j].st \in {"acquired", "uploading"}}))
    /\ [](pc = "delete" =>
            sem = Cardinality({p \in DOMAIN dunits : dunits[p] = "running"}))
    /\ [][(pc = "upload" /\ pc' # "upload") \/ (pc = "delete" /\ pc' # "delete") => sem = 0]_vars
    /\ (pc = "upload" /\ Concurrency = 1 /\ failures # EmptyBag)
          ~> (\A j \in DOMAIN units : units[j].st = "done")
    /\ (pc = "delete" /\ Concurrency = 1 /\ BagIn("delete", failures))
          ~> (\A p \in DOMAIN dunits : dunits[p] = "done")

\* With one slot, the upload executor has returned after one unit failed to read its
\* file and the other made its Upload call.
C28_Witness ==
    /\ pc = "deletePhase" /\ Concurrency = 1 /\ sem = 0
    /\ Len(operations) = 2
    /\ BagIn("execread", failures) /\ BagCardinality(uploadCalls) = 1

\* C29.  No local file is classified before the fetch has returned with every listing
\* over; from then on the remote map receives no entry (it only loses the entries the
\* classification removes); and a remote path is scheduled for deletion only when
\* the walk has visited its last entry, so after every classification.
C29_CausalOrder ==
    /\ [](walkLog # <<>> =>
            /\ pc \notin {"start", "fetch"}
            /\ listing = EmptyBag /\ sending = EmptyBag /\ dirQueue = <<>>
            /\ impl = "v122" => waitDone /\ wg = 0)
    /\ [][pc = "walk" \/ Walked =>
            /\ DOMAIN objMap' \subseteq DOMAIN objMap
            /\ \A k \in DOMAIN objMap' : objMap'[k] = objMap[k]
            /\ fetched' = fetched]_vars
    /\ [](deleteOps # {} \/ DOMAIN dunits # {} \/ deleteCalls # EmptyBag =>
            /\ walkIdx > Len(WalkList(local))
            /\ pc \in {"delete", "summary", "done"})

\* Deletes were made in a run that fetched with two workers, classified a file and
\* uploaded it.
C29_Witness ==
    /\ pc = "done" /\ impl = "v122" /\ Concurrency = 2
    /\ BagCardinality(listCalls) >= 2
    /\ walkLog # <<>> /\ uploadCalls # EmptyBag /\ deleteCalls # EmptyBag

\* The keys under which the directories of the zone would lie in the remote map.
DirKeys == {Normalize(DirObject(d)) : d \in RemoteDirs(remote0)}

\* A remote map with the directory entries of the zone put into it.
WithDirs(m) ==
    [k \in DOMAIN m \cup DirKeys |->
        IF k \in DirKeys
        THEN DirObject(CHOOSE d \in RemoteDirs(remote0) : Normalize(DirObject(d)) = k)
        ELSE m[k]]

\* C30.  Every path scheduled for deletion or passed to Delete is the key of a file
\* entry of the fetched map and of no directory of the zone; and the candidates
\* the delete phase takes from a residual map hold no directory entry even when the
\* map holds the zone's directories.
C30_NoDeleteOnDirectory ==
    /\ \A p \in BagToSet(deleteCalls) \cup DOMAIN dunits \cup deleteOps :
          /\ p \in DOMAIN fetched /\ ~fetched[p].IsDirectory
          /\ p \notin DirKeys
    /\ pc = "deletePhase" =>
          \A p \in DeleteCandidates(WithDirs(objMap)) : ~WithDirs(objMap)[p].IsDirectory

\* Delete was called for a file below a directory of the zone.
C30_Witness ==
    /\ pc = "done"
    /\ \E p \in BagToSet(deleteCalls) : Len(Elems(p)) > 1
    /\ DirKeys # {}

----------------------------------------------------------------------------
(* C31 *)

\* C31.  Every path passed to Delete is the path below the zone root of a file of the
\* zone that a List call of the run has returned: its key in the fetched map is its
\* Path and ObjectName with the zone name taken off once and the rest kept, also for
\* a file below a directory of the zone root that is named like the zone.
C31_DeletePathsAreZonePaths ==
    \A p \in BagToSet(deleteCalls) :
        \E f \in DOMAIN remote0 :
            /\ p = Str(f)
            /\ p \in DOMAIN fetched /\ fetched[p] = FileObject(remote0, f)

----------------------------------------------------------------------------
(* C32 *)

\* The upload units whose Upload call does not return.
Hung == {j \in DOMAIN units : units[j].st = "hung"}

\* C32.  With at least two slots and one Upload call that never returns, every other
\* upload unit still gets a slot and runs to its end; meanwhile the slots in use are
\* those of the hung unit and of the units at work, so that at the end only the hung
\* unit's slot is taken; the class counters stay as the walk left them, the error
\* counter is the number of failures, and every file of the zone is as it was or as
\* an Upload call wrote it.
C32_HungUploadStallsOneSlot ==
    /\ (pc = "upload" /\ Concurrency >= 2 /\ Hung # {})
          ~> (\A j \in DOMAIN units \ Hung : units[j].st = "done")
    /\ [](Hung # {} =>
            /\ pc = "upload" /\ Cardinality(Hung) = 1
            /\ sem = 1 + Cardinality({j \in DOMAIN units :
                                          units[j].st \in {"acquired", "uploading"}})
            /\ metrics.errors = BagCardinality(failures)
            /\ \A f \in DOMAIN remote :
                  \/ f \in DOMAIN remote0 /\ remote[f] = remote0[f]
                  \/ \E c \in BagToSet(uploadCalls) :
                        c.relPath = Str(f) /\ remote[f].content = c.content)
    /\ [][pc = "upload" =>
            /\ Counts(metrics') = Counts(metrics)
            /\ operations' = operations /\ objMap' = objMap]_vars

\* One of three units is hung in its Upload call and the two others, which had one
\* slot between them, are done, one of them after a failed Upload call.
C32_Witness ==
    /\ pc = "upload" /\ Concurrency = 2 /\ Len(operations) = 3
    /\ Hung # {} /\ sem = 1
    /\ \A j \in DOMAIN units \ Hung : units[j].st = "done"
    /\ BagCardinality(uploadCalls) = 3 /\ BagIn("upload", failures)

----------------------------------------------------------------------------
(* C33 *)

\* C33.  A Concurrency of zero or less is replaced by 5 in the step that leaves the
\* start of Sync, before the fetch and before any executor: from the fetch on the
\* ceiling is at least one, a fetch with no listing under way has a free worker, and
\* an executor with no slot taken admits a unit.
C33_DefaultConcurrency ==
    /\ [][pc = "start" /\ pc' # "done" =>
            /\ pc' = "fetch" /\ listCalls' = EmptyBag /\ listing' = EmptyBag
            /\ Concurrency' = IF Concurrency <= 0 THEN 5 ELSE Concurrency]_vars
    /\ [][pc # "start" => Concurrency' = Concurrency]_vars
    /\ [](pc \in {"fetch", "walk", "upload", "deletePhase", "delete"} =>
            /\ Concurrency >= 1
            /\ BagCardinality(listing) = 0 => HasSlot(BagCardinality(listing))
            /\ sem = 0 => HasSlot(sem))

\* Three upload units hold a slot at once in a run that was started with
\* Concurrency unset.
C33_Witness ==
    /\ pc = "upload" /\ Concurrency = 5
    /\ sem = 3 /\ Len(operations) = 3

----------------------------------------------------------------------------
(* C34 *)

\* C34.  The checksum of every Upload call is the digest of the content passed in that
\* call, both being what the executor has read, also when the file has been written
\* to since the walk classified it; so where the two differ it is not the checksum
\* the walk has put in the operation.
C34_ChecksumOfSentContent ==
    /\ \A c \in BagToSet(uploadCalls) : c.checksum = Sum256(c.content)
    /\ \A i \in DOMAIN units :
          units[i].st \in {"uploading", "hung"} =>
              /\ units[i].checksum = Sum256(units[i].content)
              /\ \E c \in BagToSet(uploadCalls) :
                    /\ c.relPath = operations[i].relPath
                    /\ c.content = units[i].content /\ c.checksum = units[i].checksum

\* An Upload call is under way for a file that was written to after the walk had read
\* it: the checksum of the call is not the one the walk has put in the operation.
C34_Witness ==
    \E i \in DOMAIN units :
        /\ units[i].st = "uploading"
        /\ operations[i].checksum # <<>>
        /\ units[i].checksum # operations[i].checksum

----------------------------------------------------------------------------
(* C35 *)

\* C35.  In the parallel fetch no send is made on the closed queue, in no interleaving
\* and not after the timeout either: when the waiter closes the queue no enqueue
\* goroutine is waiting to send, the queue is empty and no listing is under way, and
\* none of this changes afterwards.
C35_NoSendOnClosedQueue ==
    /\ [](pc # "panic")
    /\ [][waitDone' /\ ~waitDone =>
            wg = 0 /\ sending = EmptyBag /\ dirQueue = <<>> /\ listing = EmptyBag]_vars
    /\ [](waitDone => sending = EmptyBag /\ dirQueue = <<>> /\ listing = EmptyBag)

\* The queue is closed in a run whose fetch has returned by the timeout, with every
\* prefix delivered and listed.
C35_Witness ==
    /\ waitDone
    /\ ret = "failed to fetch remote objects: listing timeout"
    /\ BagCardinality(listCalls) >= 3

====
